---- MODULE Spec2Model ----
(***************************************************************************)
(* kcheck: checking a kernel config against declared requirements.         *)
(*                                                                         *)
(* Strings are TLA+ strings; the Rust string functions the scanner uses    *)
(* (contains, starts_with, split_inclusive, split) are computed on them    *)
(* character by character with Len and SubSeq.                             *)
(***************************************************************************)
EXTENDS Integers, Sequences, FiniteSets, TLC

VARIABLES
    lines,      \* KernelConfig.lines: the raw lines of the kernel config
    config,     \* Kcheck.config: the KcheckConfig (name, kernel, fragment)
    ret,        \* the last call made and what it returned
    env,        \* the files that exist, with their contents, and uname's release
    kb,         \* the KernelConfigBuilder
    calls,      \* the calls made on the KernelConfigBuilder so far, in order
    kres,       \* what building the kernel config returned
    cb,         \* the KcheckConfigBuilder
    kcb         \* the KcheckBuilder

vars == <<lines, config, ret, env, kb, calls, kres, cb, kcb>>

\* what a call on a kernel config or on a Kcheck leaves alone
builders == <<env, kb, calls, kres, cb, kcb>>

(***************************************************************************)
(* Bounds of the model.                                                    *)
(***************************************************************************)
MaxLines == 2       \* lines of a kernel config scanned by option/check_option
MaxCfgLines == 2    \* lines of the kernel config handed to perform_check
MaxChecks == 2      \* top-level options of a requirement document
MaxCalls == 2       \* calls made on a KernelConfigBuilder before build
MaxFiles == 2       \* user files handed to a KcheckConfigBuilder

(***************************************************************************)
(* Rust's str functions, as the scanner uses them.                         *)
(***************************************************************************)
\* s[i..] : the rest of s from position i (1-based) on
str_from(s, i) == SubSeq(s, i, Len(s))

\* str::starts_with
starts_with(s, p) == Len(p) <= Len(s) /\ SubSeq(s, 1, Len(p)) = p

\* str::find : 1-based position of the first occurrence of p in s, 0 if none
find(s, p) ==
    LET hits == {i \in 1..(Len(s) - Len(p) + 1) : SubSeq(s, i, i + Len(p) - 1) = p}
    IN  IF hits = {} THEN 0 ELSE CHOOSE i \in hits : \A j \in hits : i <= j

\* str::contains
contains(s, p) == find(s, p) # 0

\* str::split_inclusive : the pieces of s, each ending with an occurrence of p
\* (the leftmost one not overlapping the piece before); a non-empty rest is
\* the last piece.
RECURSIVE split_inclusive(_, _)
split_inclusive(s, p) ==
    IF s = "" THEN <<>>
    ELSE LET i == find(s, p)
         IN  IF i = 0 THEN <<s>>
             ELSE <<SubSeq(s, 1, i + Len(p) - 1)>>
                      \o split_inclusive(str_from(s, i + Len(p)), p)

\* str::split : the pieces of s between the occurrences of p, empty ones kept
RECURSIVE split(_, _)
split(s, p) ==
    LET i == find(s, p)
    IN  IF i = 0 THEN <<s>>
        ELSE <<SubSeq(s, 1, i - 1)>> \o split(str_from(s, i + Len(p)), p)

(***************************************************************************)
(* KconfigState, Option and Result values.                                 *)
(***************************************************************************)
State(v) == [v |-> v, s |-> ""]
Text(s) == [v |-> "Text", s |-> s]

NotFound == State("NotFound")
NotSet == State("NotSet")
Off == State("Off")
Disabled == State("Disabled")
On == State("On")
Module == State("Module")
Enabled == State("Enabled")

\* the payloads of Text used as inputs
TextPayloads == {"", "y", "incorrect"}

KconfigState ==
    {NotFound, NotSet, Off, Disabled, On, Module, Enabled}
        \cup {Text(s) : s \in TextPayloads}

None == [some |-> FALSE, v |-> <<>>]
Some(x) == [some |-> TRUE, v |-> x]

Ok(x) == [tag |-> "Ok", val |-> x, kind |-> "", payload |-> ""]
Err(kind, payload) == [tag |-> "Err", val |-> <<>>, kind |-> kind, payload |-> payload]
\* the call did not return: an index out of bounds aborted it
Panic == [tag |-> "Panic", val |-> <<>>, kind |-> "", payload |-> ""]

DuplicateConfig(s) == Err("DuplicateConfig", s)
KernelConfigParseError == Err("KernelConfigParseError", "")
UnknownKernelConfigOption(s) == Err("UnknownKernelConfigOption", s)

(***************************************************************************)
(* The state lattice: desired.check(observed).                             *)
(***************************************************************************)
\* plain equality for every desired state
check_strict(desired, observed) == desired = observed

\* Enabled is satisfied by On alone
check_on_only(desired, observed) ==
    IF desired = Disabled THEN observed \in {NotFound, NotSet, Off}
    ELSE IF desired = Enabled THEN observed = On
    ELSE desired = observed

\* Off is also satisfied by NotSet and NotFound
check_off_coerced(desired, observed) ==
    IF desired \in {Disabled, Off} THEN observed \in {NotFound, NotSet, Off}
    ELSE IF desired = Enabled THEN observed \in {On, Module}
    ELSE desired = observed

check(desired, observed) ==
    IF desired = Disabled THEN observed \in {NotFound, NotSet, Off}
    ELSE IF desired = Enabled THEN observed \in {On, Module}
    ELSE desired = observed

(***************************************************************************)
(* KernelConfig::option, the config-line scanner.                          *)
(***************************************************************************)
contains_is_not_set(text) == contains(text, "is not set")

is_comment(line) == starts_with(line, "#")

\* format!("{option}_")
super_string(symbol) == symbol \o "_"

\* every line that contains the symbol is looked at
is_candidate_unguarded(line, symbol) == contains(line, symbol)

\* a line where the symbol goes on with a letter is not looked at either
is_candidate_whole_word(line, symbol) ==
    /\ contains(line, symbol)
    /\ ~contains(line, super_string(symbol))
    /\ LET rest == str_from(line, find(line, symbol) + Len(symbol))
       IN  rest = "" \/ starts_with(rest, "=") \/ starts_with(rest, " ")

\* the condition under which the fold looks at a line
is_candidate(line, symbol) ==
    contains(line, symbol) /\ ~contains(line, super_string(symbol))

\* y and n are reported as Enabled and Disabled
classify_virtual(line, symbol) ==
    LET line_parts == split_inclusive(line, symbol)
    IN  IF is_comment(line_parts[1])
        THEN IF Len(line_parts) < 2 THEN Panic
             ELSE IF contains_is_not_set(line_parts[2]) THEN Ok(NotSet)
             ELSE KernelConfigParseError
        ELSE IF Len(line_parts) > 1 /\ contains(line_parts[2], "=")
        THEN LET value == split(line_parts[2], "=")[2]
             IN  CASE value = "y" -> Ok(Enabled)
                   [] value = "m" -> Ok(Module)
                   [] value = "n" -> Ok(Disabled)
                   [] OTHER -> UnknownKernelConfigOption(value)
        ELSE KernelConfigParseError

\* an unknown value is reported with the "=" before it
classify_raw(line, symbol) ==
    LET line_parts == split_inclusive(line, symbol)
    IN  IF is_comment(line_parts[1])
        THEN IF Len(line_parts) < 2 THEN Panic
             ELSE IF contains_is_not_set(line_parts[2]) THEN Ok(NotSet)
             ELSE KernelConfigParseError
        ELSE IF Len(line_parts) > 1 /\ contains(line_parts[2], "=")
        THEN LET value == split(line_parts[2], "=")[2]
             IN  CASE value = "y" -> Ok(On)
                   [] value = "m" -> Ok(Module)
                   [] value = "n" -> Ok(Off)
                   [] OTHER -> UnknownKernelConfigOption(line_parts[2])
        ELSE KernelConfigParseError

\* what the fold pushes for one candidate line; line_parts[1] of the code is
\* line_parts[2] here, and reading it when the line has one part only panics
classify(line, symbol) ==
    LET line_parts == split_inclusive(line, symbol)
    IN  IF is_comment(line_parts[1])
        THEN IF Len(line_parts) < 2 THEN Panic
             ELSE IF contains_is_not_set(line_parts[2]) THEN Ok(NotSet)
             ELSE KernelConfigParseError
        ELSE IF Len(line_parts) > 1 /\ contains(line_parts[2], "=")
        THEN LET value == split(line_parts[2], "=")[2]
             IN  CASE value = "y" -> Ok(On)
                   [] value = "m" -> Ok(Module)
                   [] value = "n" -> Ok(Off)
                   [] OTHER -> UnknownKernelConfigOption(value)
        ELSE KernelConfigParseError

\* the fold over self.lines: one entry per candidate line, in line order
RECURSIVE found_state(_, _)
found_state(ls, symbol) ==
    IF ls = <<>> THEN <<>>
    ELSE (IF is_candidate(Head(ls), symbol)
          THEN <<classify(Head(ls), symbol)>> ELSE <<>>)
             \o found_state(Tail(ls), symbol)

\* no candidate line is reported as an error
option_notfound_err(ls, symbol) ==
    LET found == found_state(ls, symbol)
    IN  IF \E i \in 1..Len(found) : found[i] = Panic THEN Panic
        ELSE IF Len(found) = 0 THEN KernelConfigParseError
        ELSE IF Len(found) = 1 THEN found[1]
        ELSE DuplicateConfig(symbol)

\* DuplicateConfig does not carry the symbol
option_dup_anon(ls, symbol) ==
    LET found == found_state(ls, symbol)
    IN  IF \E i \in 1..Len(found) : found[i] = Panic THEN Panic
        ELSE IF Len(found) = 0 THEN Ok(NotFound)
        ELSE IF Len(found) = 1 THEN found[1]
        ELSE DuplicateConfig("")

\* of several candidate lines the first one decides
option_first(ls, symbol) ==
    LET found == found_state(ls, symbol)
    IN  IF \E i \in 1..Len(found) : found[i] = Panic THEN Panic
        ELSE IF Len(found) = 0 THEN Ok(NotFound)
        ELSE found[1]

option(ls, symbol) ==
    LET found == found_state(ls, symbol)
    IN  IF \E i \in 1..Len(found) : found[i] = Panic THEN Panic
        ELSE IF Len(found) = 0 THEN Ok(NotFound)
        ELSE IF Len(found) = 1 THEN found[1]
        ELSE DuplicateConfig(symbol)

\* a lookup error counts as an absent symbol
check_option_err_absent(ls, desired_option, desired_state) ==
    LET r == option(ls, desired_option)
    IN  CASE r.tag = "Ok" -> Ok(r.val = desired_state)
          [] r.tag = "Err" -> Ok(desired_state = NotFound)
          [] OTHER -> Panic

\* Ok(state) => state == desired_state, Err(_) => false, as Ok(bool); a panic
\* of option is not caught
check_option(ls, desired_option, desired_state) ==
    LET r == option(ls, desired_option)
    IN  CASE r.tag = "Ok" -> Ok(r.val = desired_state)
          [] r.tag = "Err" -> Ok(FALSE)
          [] OTHER -> Panic

(***************************************************************************)
(* Files and paths, as the builders read them.                             *)
(***************************************************************************)
\* the contents of a file: text, gzip-compressed text, or a requirement
\* document serialised as TOML or JSON (the document text itself is not kept)
TextFile(text) == [kind |-> "text", text |-> text, doc |-> <<>>]
GzipFile(text) == [kind |-> "gzip", text |-> text, doc |-> <<>>]
TomlFile(doc) == [kind |-> "toml", text |-> "", doc |-> doc]
JsonFile(doc) == [kind |-> "json", text |-> "", doc |-> doc]

FileDoesNotExist(path) == Err("FileDoesNotExist", path)
IoError(msg) == Err("IoError", msg)
KernelConfigBuildError(msg) == Err("KernelConfigBuildError", msg)
KernelConfigNotFound == Err("KernelConfigNotFound", "")

\* Path::exists; files maps every existing path to its contents
exists(files, path) == path \in DOMAIN files

\* str::rfind : 1-based position of the last occurrence of p in s, 0 if none
rfind(s, p) ==
    LET hits == {i \in 1..(Len(s) - Len(p) + 1) : SubSeq(s, i, i + Len(p) - 1) = p}
    IN  IF hits = {} THEN 0 ELSE CHOOSE i \in hits : \A j \in hits : i >= j

\* Path::file_name : the last component of the path
file_name(path) == str_from(path, rfind(path, "/") + 1)

\* Path::extension : what follows the last "." of the file name, if the file
\* name has one that is not its first character
extension(path) ==
    LET name == file_name(path)
        dot == rfind(name, ".")
    IN  IF name = ".." \/ dot <= 1 THEN None ELSE Some(str_from(name, dot + 1))

\* str::lines : the pieces between "\n", a "\r" before the "\n" removed, no
\* empty piece after a final "\n"
RECURSIVE str_lines(_)
str_lines(s) ==
    IF s = "" THEN <<>>
    ELSE LET i == find(s, "\n")
         IN  IF i = 0 THEN <<s>>
             ELSE LET line == SubSeq(s, 1, i - 1)
                      n == Len(line)
                  IN  <<IF n > 0 /\ SubSeq(line, n, n) = "\r"
                        THEN SubSeq(line, 1, n - 1) ELSE line>>
                          \o str_lines(str_from(s, i + 1))

\* open_file, then read_to_string: gzip data is not valid UTF-8
file_contents_as_string(files, path) ==
    IF ~exists(files, path) THEN FileDoesNotExist(path)
    ELSE IF files[path].kind = "gzip"
    THEN IoError("stream did not contain valid UTF-8")
    ELSE Ok(files[path])

\* open_file, then GzDecoder::read_to_string
inflate_gzip_file(files, path) ==
    IF ~exists(files, path) THEN FileDoesNotExist(path)
    ELSE IF files[path].kind = "gzip" THEN Ok(files[path])
    ELSE IoError("invalid gzip header")

(***************************************************************************)
(* KernelConfigBuilder.                                                    *)
(***************************************************************************)
PROC_CONFIG_GZ == "/proc/config.gz"
BOOT_CONFIG == "/boot/config"

KernelConfigFileInfo(path, inflate) == [path |-> path, inflate |-> inflate]

find_user_cfg(files, path) ==
    IF exists(files, path)
    THEN LET ext == extension(path)
         IN  Some(KernelConfigFileInfo(path, ext.some /\ ext.v = "gz"))
    ELSE None

try_from_user(files, path) ==
    LET cfg == find_user_cfg(files, path)
    IN  IF cfg.some THEN Ok(cfg.v) ELSE FileDoesNotExist(path)

find_system_cfg(files) ==
    IF exists(files, PROC_CONFIG_GZ)
    THEN Some(KernelConfigFileInfo(PROC_CONFIG_GZ, TRUE))
    ELSE IF exists(files, BOOT_CONFIG)
    THEN Some(KernelConfigFileInfo(BOOT_CONFIG, FALSE))
    ELSE None

\* e.release is what uname returns: Some(release), or None when it fails
try_boot_config_release(e) ==
    IF ~e.release.some
    THEN KernelConfigBuildError("Could not get release string from uname")
    ELSE LET boot_config_release == BOOT_CONFIG \o "-" \o e.release.v
         IN  IF exists(e.files, boot_config_release)
             THEN Ok(Some(KernelConfigFileInfo(boot_config_release, FALSE)))
             ELSE Ok(None)

try_from_system(e) ==
    LET sys_cfg == find_system_cfg(e.files)
    IN  IF sys_cfg.some THEN Ok(sys_cfg.v)
        ELSE LET r == try_boot_config_release(e)
             IN  IF r.tag = "Err" THEN r
                 ELSE IF r.val.some THEN Ok(r.val.v)
                 ELSE KernelConfigNotFound

\* FromStr for KernelConfig: the lines of the text
from_str(s) == Ok(str_lines(s))

try_from_file_info(files, info) ==
    LET contents == IF info.inflate THEN inflate_gzip_file(files, info.path)
                    ELSE file_contents_as_string(files, info.path)
    IN  IF contents.tag = "Err" THEN contents ELSE from_str(contents.val.text)

\* KernelConfigBuilder::default()
DefaultKernelConfigBuilder ==
    [usr_cfg_file |-> None, sys_cfg_flag |-> FALSE, lines |-> <<>>]

KernelConfigBuilder_system(b) == [b EXCEPT !.sys_cfg_flag = TRUE]

\* a path given earlier is kept
KernelConfigBuilder_user_first(b, path) ==
    IF b.usr_cfg_file.some THEN b ELSE [b EXCEPT !.usr_cfg_file = Some(path)]

KernelConfigBuilder_user(b, path) == [b EXCEPT !.usr_cfg_file = Some(path)]

\* Text is written without its quotes
option_line_unquoted(symbol, state) ==
    CASE state = NotFound -> ""
      [] state = NotSet -> "# " \o symbol \o " is not set"
      [] state \in {Off, Disabled} -> symbol \o "=n"
      [] state \in {On, Enabled} -> symbol \o "=y"
      [] state = Module -> symbol \o "=m"
      [] OTHER -> symbol \o "=" \o state.s

\* Disabled is written as a not-set marker
option_line_disabled_unset(symbol, state) ==
    CASE state = NotFound -> ""
      [] state \in {NotSet, Disabled} -> "# " \o symbol \o " is not set"
      [] state = Off -> symbol \o "=n"
      [] state \in {On, Enabled} -> symbol \o "=y"
      [] state = Module -> symbol \o "=m"
      [] OTHER -> symbol \o "=\"" \o state.s \o "\""

\* the line KernelConfigBuilder::option writes for a state
option_line(symbol, state) ==
    CASE state = NotFound -> ""
      [] state = NotSet -> "# " \o symbol \o " is not set"
      [] state \in {Off, Disabled} -> symbol \o "=n"
      [] state \in {On, Enabled} -> symbol \o "=y"
      [] state = Module -> symbol \o "=m"
      [] OTHER -> symbol \o "=\"" \o state.s \o "\""

KernelConfigBuilder_option(b, symbol, state) ==
    [b EXCEPT !.lines = Append(@, option_line(symbol, state))]

\* the manual lines are not checked against the other sources
KernelConfigBuilder_build_unguarded(b, e) ==
    IF b.sys_cfg_flag /\ b.usr_cfg_file.some
    THEN KernelConfigBuildError("Both system and user config build methods are set")
    ELSE LET usr == IF b.usr_cfg_file.some
                    THEN try_from_user(e.files, b.usr_cfg_file.v) ELSE Ok(<<>>)
         IN  IF usr.tag = "Err" THEN usr
             ELSE LET sys == IF b.sys_cfg_flag THEN try_from_system(e) ELSE Ok(<<>>)
                  IN  IF sys.tag = "Err" THEN sys
                      ELSE LET file_info == IF b.sys_cfg_flag THEN Some(sys.val)
                                            ELSE IF b.usr_cfg_file.some THEN Some(usr.val)
                                            ELSE None
                           IN  IF file_info.some
                               THEN try_from_file_info(e.files, file_info.v)
                               ELSE IF b.lines = <<>>
                               THEN KernelConfigBuildError("No config file information found")
                               ELSE Ok(b.lines)

\* KernelConfigBuilder::build: Ok carries the lines of the KernelConfig
KernelConfigBuilder_build(b, e) ==
    IF b.lines # <<>> /\ (b.sys_cfg_flag \/ b.usr_cfg_file.some)
    THEN KernelConfigBuildError(
            "Cannot set options manually when another builder method is used")
    ELSE IF b.sys_cfg_flag /\ b.usr_cfg_file.some
    THEN KernelConfigBuildError("Both system and user config build methods are set")
    ELSE LET usr == IF b.usr_cfg_file.some
                    THEN try_from_user(e.files, b.usr_cfg_file.v) ELSE Ok(<<>>)
         IN  IF usr.tag = "Err" THEN usr
             ELSE LET sys == IF b.sys_cfg_flag THEN try_from_system(e) ELSE Ok(<<>>)
                  IN  IF sys.tag = "Err" THEN sys
                      ELSE LET file_info == IF b.sys_cfg_flag THEN Some(sys.val)
                                            ELSE IF b.usr_cfg_file.some THEN Some(usr.val)
                                            ELSE None
                           IN  IF file_info.some
                               THEN try_from_file_info(e.files, file_info.v)
                               ELSE IF b.lines = <<>>
                               THEN KernelConfigBuildError("No config file information found")
                               ELSE Ok(b.lines)

(***************************************************************************)
(* KcheckConfig and its check list.                                        *)
(***************************************************************************)
KconfigOption(name, state) == [name |-> name, state |-> state]

KcheckConfigFragment(kernel) == [name |-> None, reason |-> None, kernel |-> kernel]

KcheckConfig(name, kernel, fragment) ==
    [name |-> name, kernel |-> kernel, fragment |-> fragment]

\* KcheckConfig::default()
DefaultConfig == KcheckConfig(None, None, None)

\* flat_map(|f| f.kernel.into_iter()) over the fragments
RECURSIVE flat_map_kernel(_)
flat_map_kernel(fs) ==
    IF fs = <<>> THEN <<>> ELSE Head(fs).kernel \o flat_map_kernel(Tail(fs))

\* an option that occurred before is dropped
into_iter_dedup(cfg) ==
    LET kernel == IF cfg.kernel.some THEN cfg.kernel.v ELSE <<>>
        fragments == IF cfg.fragment.some THEN flat_map_kernel(cfg.fragment.v) ELSE <<>>
        all == SelectSeq([i \in 1..Len(kernel \o fragments) |->
                            <<i, (kernel \o fragments)[i]>>],
                         LAMBDA e : \A j \in 1..(e[1] - 1) :
                                        (kernel \o fragments)[j].name # e[2].name)
    IN  [i \in 1..Len(all) |-> <<all[i][2].name, all[i][2].state>>]

\* the options of the fragments come before the top-level options
into_iter_fragments_first(cfg) ==
    LET kernel == IF cfg.kernel.some THEN cfg.kernel.v ELSE <<>>
        fragments == IF cfg.fragment.some THEN flat_map_kernel(cfg.fragment.v) ELSE <<>>
        all == fragments \o kernel
    IN  [i \in 1..Len(all) |-> <<all[i].name, all[i].state>>]

\* IntoIterator for KcheckConfig: the (name, state) pairs of the top-level
\* options, then those of every fragment
into_iter(cfg) ==
    LET kernel == IF cfg.kernel.some THEN cfg.kernel.v ELSE <<>>
        fragments == IF cfg.fragment.some THEN flat_map_kernel(cfg.fragment.v) ELSE <<>>
        all == kernel \o fragments
    IN  [i \in 1..Len(all) |-> <<all[i].name, all[i].state>>]

(***************************************************************************)
(* KcheckConfigBuilder: the requirement documents and their aggregation.   *)
(***************************************************************************)
ETC_KCHECK_TOML == "/etc/kcheck.toml"
ETC_KCHECK_JSON == "/etc/kcheck.json"

MissingFileExtension == Err("MissingFileExtension", "")
NoConfig == Err("NoConfig", "")
UnknownFileType(f) == Err("UnknownFileType", f)
TomlParseError == Err("TomlParseError", "")
JsonParseError == Err("JsonParseError", "")

\* toml::from_str and serde_json::from_str: contents in the other format, or
\* in none, do not parse
toml_from_str(contents) ==
    IF contents.kind = "toml" THEN Ok(contents.doc) ELSE TomlParseError

json_from_str(contents) ==
    IF contents.kind = "json" THEN Ok(contents.doc) ELSE JsonParseError

\* the extension is looked at before the file is opened
try_from_file_extension_first(files, path) ==
    LET contents == file_contents_as_string(files, path)
        ext == extension(path)
    IN  IF ~ext.some THEN MissingFileExtension
        ELSE IF ext.v \notin {"toml", "json"} THEN UnknownFileType(ext.v)
        ELSE IF contents.tag = "Err" THEN contents
        ELSE IF ext.v = "toml" THEN toml_from_str(contents.val)
        ELSE json_from_str(contents.val)

\* KcheckConfig::try_from_file
try_from_file(files, path) ==
    LET contents == file_contents_as_string(files, path)
        ext == extension(path)
    IN  IF contents.tag = "Err" THEN contents
        ELSE IF ext.some /\ ext.v = "toml" THEN toml_from_str(contents.val)
        ELSE IF ext.some /\ ext.v = "json" THEN json_from_str(contents.val)
        ELSE IF ext.some THEN UnknownFileType(ext.v)
        ELSE MissingFileExtension

option_vector_append(orig, other) ==
    IF other.some
    THEN IF ~orig.some THEN other ELSE Some(orig.v \o other.v)
    ELSE orig

\* a config without a name takes the name of the one appended
append_name_fallback(self, other) ==
    [name |-> IF self.name.some THEN self.name ELSE other.name,
     kernel |-> option_vector_append(self.kernel, other.kernel),
     fragment |-> option_vector_append(self.fragment, other.fragment)]

\* KcheckConfig::append: self after the call
append(self, other) ==
    [self EXCEPT !.kernel = option_vector_append(self.kernel, other.kernel),
                 !.fragment = option_vector_append(self.fragment, other.fragment)]

\* KcheckConfigBuilder::default()
DefaultKcheckConfigBuilder ==
    [name |-> None, kernel |-> None, fragment |-> None,
     use_sys_cfg |-> FALSE, user_cfg_files |-> <<>>]

KcheckConfigBuilder_name(b, name) == [b EXCEPT !.name = Some(name)]

KcheckConfigBuilder_kernel(b, kernel) == [b EXCEPT !.kernel = Some(kernel)]

KcheckConfigBuilder_fragment(b, fragment) == [b EXCEPT !.fragment = Some(fragment)]

KcheckConfigBuilder_system(b) == [b EXCEPT !.use_sys_cfg = TRUE]

KcheckConfigBuilder_config_files(b, files) ==
    [b EXCEPT !.user_cfg_files = @ \o files]

\* the loop over user_cfg_files: the first one that does not exist ends build
RECURSIVE collect_user_files(_, _, _)
collect_user_files(files, items, fragments) ==
    IF items = <<>> THEN Ok(fragments)
    ELSE IF exists(files, Head(items))
    THEN collect_user_files(files, Tail(items), Append(fragments, Head(items)))
    ELSE FileDoesNotExist(Head(items))

\* a user file that does not exist is left out
RECURSIVE collect_user_files_lenient(_, _, _)
collect_user_files_lenient(files, items, fragments) ==
    IF items = <<>> THEN Ok(fragments)
    ELSE collect_user_files_lenient(files, Tail(items),
            IF exists(files, Head(items)) THEN Append(fragments, Head(items))
            ELSE fragments)

\* the loop over the paths: a path that does not exist is skipped, any other
\* error ends build
RECURSIVE load_fragments(_, _, _)
load_fragments(files, fragments, collection) ==
    IF fragments = <<>> THEN Ok(collection)
    ELSE LET cfg == try_from_file(files, Head(fragments))
         IN  IF cfg.tag = "Ok"
             THEN load_fragments(files, Tail(fragments), Append(collection, cfg.val))
             ELSE IF cfg.kind = "FileDoesNotExist"
             THEN load_fragments(files, Tail(fragments), collection)
             ELSE cfg

\* the document made of what was given through the builder, if anything was
api_fragment(b) ==
    IF b.name.some \/ b.kernel.some \/ b.fragment.some
    THEN <<KcheckConfig(b.name, b.kernel, b.fragment)>>
    ELSE <<>>

\* combined.append(item) for every item, in order
RECURSIVE combine(_, _)
combine(combined, collection) ==
    IF collection = <<>> THEN combined
    ELSE combine(append(combined, Head(collection)), Tail(collection))

\* a name alone is not a document
KcheckConfigBuilder_build_nameless(b, files) ==
    LET known == IF b.use_sys_cfg THEN <<ETC_KCHECK_TOML, ETC_KCHECK_JSON>> ELSE <<>>
        fragments == collect_user_files(files, b.user_cfg_files, known)
    IN  IF fragments.tag = "Err" THEN fragments
        ELSE LET loaded == load_fragments(files, fragments.val, <<>>)
             IN  IF loaded.tag = "Err" THEN loaded
                 ELSE LET collection ==
                            loaded.val \o
                              (IF b.kernel.some \/ b.fragment.some
                               THEN api_fragment(b) ELSE <<>>)
                      IN  IF collection # <<>>
                          THEN Ok(combine(Head(collection), Tail(collection)))
                          ELSE NoConfig

\* user files that do not exist are skipped
KcheckConfigBuilder_build_lenient(b, files) ==
    LET known == IF b.use_sys_cfg THEN <<ETC_KCHECK_TOML, ETC_KCHECK_JSON>> ELSE <<>>
        fragments == collect_user_files_lenient(files, b.user_cfg_files, known)
    IN  IF fragments.tag = "Err" THEN fragments
        ELSE LET loaded == load_fragments(files, fragments.val, <<>>)
             IN  IF loaded.tag = "Err" THEN loaded
                 ELSE LET collection == loaded.val \o api_fragment(b)
                      IN  IF collection # <<>>
                          THEN Ok(combine(Head(collection), Tail(collection)))
                          ELSE NoConfig

\* a path that does not load is skipped, whatever the error
RECURSIVE load_fragments_tolerant(_, _, _)
load_fragments_tolerant(files, fragments, collection) ==
    IF fragments = <<>> THEN Ok(collection)
    ELSE LET cfg == try_from_file(files, Head(fragments))
         IN  load_fragments_tolerant(files, Tail(fragments),
                IF cfg.tag = "Ok" THEN Append(collection, cfg.val) ELSE collection)

\* no load error ends build
KcheckConfigBuilder_build_tolerant(b, files) ==
    LET known == IF b.use_sys_cfg THEN <<ETC_KCHECK_TOML, ETC_KCHECK_JSON>> ELSE <<>>
        fragments == collect_user_files(files, b.user_cfg_files, known)
    IN  IF fragments.tag = "Err" THEN fragments
        ELSE LET loaded == load_fragments_tolerant(files, fragments.val, <<>>)
             IN  LET collection == loaded.val \o api_fragment(b)
                 IN  IF collection # <<>>
                     THEN Ok(combine(Head(collection), Tail(collection)))
                     ELSE NoConfig

\* KcheckConfigBuilder::build
KcheckConfigBuilder_build(b, files) ==
    LET known == IF b.use_sys_cfg THEN <<ETC_KCHECK_TOML, ETC_KCHECK_JSON>> ELSE <<>>
        fragments == collect_user_files(files, b.user_cfg_files, known)
    IN  IF fragments.tag = "Err" THEN fragments
        ELSE LET loaded == load_fragments(files, fragments.val, <<>>)
             IN  IF loaded.tag = "Err" THEN loaded
                 ELSE LET collection == loaded.val \o api_fragment(b)
                      IN  IF collection # <<>>
                          THEN Ok(combine(Head(collection), Tail(collection)))
                          ELSE NoConfig

(***************************************************************************)
(* Kcheck::perform_check.                                                  *)
(***************************************************************************)
\* From<bool> for CheckResult
CheckResult(b) == IF b THEN "Pass" ELSE "Fail"

KcheckConfigResult(name, desired_state, kernel_state, result) ==
    [name |-> name, desired_state |-> desired_state,
     kernel_state |-> kernel_state, result |-> result]

\* the for loop: `?` returns the first error at once, a panic of option is
\* not caught, and a record is pushed for every entry that resolves
RECURSIVE check_loop(_, _, _)
check_loop(list, ls, results) ==
    IF list = <<>> THEN Ok(results)
    ELSE LET name == Head(list)[1]
             desired_state == Head(list)[2]
             kernel_state == option(ls, name)
         IN  IF kernel_state.tag # "Ok" THEN kernel_state
             ELSE check_loop(Tail(list), ls,
                     Append(results,
                         KcheckConfigResult(name, desired_state, kernel_state.val,
                             CheckResult(check(desired_state, kernel_state.val)))))

\* the records come out newest first
RECURSIVE check_loop_rev(_, _, _)
check_loop_rev(list, ls, results) ==
    IF list = <<>> THEN Ok(results)
    ELSE LET name == Head(list)[1]
             desired_state == Head(list)[2]
             kernel_state == option(ls, name)
         IN  IF kernel_state.tag # "Ok" THEN kernel_state
             ELSE check_loop_rev(Tail(list), ls,
                     <<KcheckConfigResult(name, desired_state, kernel_state.val,
                         CheckResult(check(desired_state, kernel_state.val)))>>
                       \o results)

perform_check_rev(cfg, ls) == check_loop_rev(into_iter(cfg), ls, <<>>)

perform_check(cfg, ls) == check_loop(into_iter(cfg), ls, <<>>)

(***************************************************************************)
(* KcheckBuilder.                                                          *)
(***************************************************************************)
\* KcheckBuilder::default()
DefaultKcheckBuilder ==
    [use_system_kernel |-> FALSE, user_kernel_files |-> <<>>,
     use_system_config |-> FALSE, user_config_files |-> <<>>]

KcheckBuilder_system_kernel(b) == [b EXCEPT !.use_system_kernel = TRUE]

KcheckBuilder_kernel_fragments(b, files) ==
    [b EXCEPT !.user_kernel_files = @ \o files]

KcheckBuilder_system_config(b) == [b EXCEPT !.use_system_config = TRUE]

KcheckBuilder_config_fragments(b, files) ==
    [b EXCEPT !.user_config_files = @ \o files]

\* Kcheck::new
Kcheck_new(cfg, kernel) == [config |-> cfg, kernel |-> kernel]

\* the first part of KcheckBuilder::build: system() if asked for, then
\* user(file) for every kernel file in order
RECURSIVE user_kernel_config_builder(_, _)
user_kernel_config_builder(b, n) ==
    IF n = 0
    THEN IF b.use_system_kernel
         THEN KernelConfigBuilder_system(DefaultKernelConfigBuilder)
         ELSE DefaultKernelConfigBuilder
    ELSE KernelConfigBuilder_user(user_kernel_config_builder(b, n - 1),
                                  b.user_kernel_files[n])

\* the second part: system() if asked for, then config_files
kcheck_config_builder(b) ==
    KcheckConfigBuilder_config_files(
        IF b.use_system_config
        THEN KcheckConfigBuilder_system(DefaultKcheckConfigBuilder)
        ELSE DefaultKcheckConfigBuilder,
        b.user_config_files)

\* KcheckBuilder::build: `?` returns the error of the kernel config first
KcheckBuilder_build(b, e) ==
    LET user_kernel_config ==
            KernelConfigBuilder_build(
                user_kernel_config_builder(b, Len(b.user_kernel_files)), e)
    IN  IF user_kernel_config.tag # "Ok" THEN user_kernel_config
        ELSE LET kcheck_config ==
                    KcheckConfigBuilder_build(kcheck_config_builder(b), e.files)
             IN  IF kcheck_config.tag # "Ok" THEN kcheck_config
                 ELSE Ok(Kcheck_new(kcheck_config.val, user_kernel_config.val))

(***************************************************************************)
(* Inputs.                                                                 *)
(***************************************************************************)
\* the sequences over S of length at most n
BoundedSeq(S, n) == UNION {[1..k -> S] : k \in 0..n}

\* symbols looked up
Symbols == {"CONFIG_FOO", "CONFIG_FOO_BAR", "CONFIG_BAR", "CONFIG_BAZ"}

\* lines of a kernel config: assignments of y, m, n, of an unknown value and
\* of a text, an indented assignment, a not-set marker, an indented not-set
\* marker, a bare symbol, a comment that ends after the symbol, a
\* commented-out assignment, a longer symbol with and without "_", another
\* symbol and the empty line
KernelLines ==
    {"CONFIG_FOO=y", "CONFIG_FOO=m", "CONFIG_FOO=n", "CONFIG_FOO=q",
     "CONFIG_FOO=\"incorrect\"", " CONFIG_FOO=m", "# CONFIG_FOO is not set",
     "  # CONFIG_FOO is not set", "CONFIG_FOO", "# CONFIG_FOO", "# CONFIG_FOO=y",
     "CONFIG_FOO_BAR=n", "CONFIG_FOOBAR=y", "CONFIG_BAR=m", ""}

\* lines of the kernel config handed to perform_check
CfgLines ==
    {"CONFIG_FOO=y", "CONFIG_FOO=q", "CONFIG_BAR=m", "CONFIG_BAR", "# CONFIG_BAR"}

CfgSymbols == {"CONFIG_FOO", "CONFIG_BAR"}

\* requirements of a document
Requirements ==
    {KconfigOption("CONFIG_FOO", On), KconfigOption("CONFIG_FOO", Disabled),
     KconfigOption("CONFIG_BAR", Enabled)}

\* the fragment lists of a document: none, or three fragments of one, no and
\* two options
FragmentLists ==
    {None,
     Some(<<KcheckConfigFragment(<<KconfigOption("CONFIG_FOO", Disabled)>>),
            KcheckConfigFragment(<<>>),
            KcheckConfigFragment(<<KconfigOption("CONFIG_BAR", Enabled),
                                   KconfigOption("CONFIG_FOO", On)>>)>>)}

KcheckConfigs ==
    {KcheckConfig(None, k, f) :
        k \in {None} \cup {Some(o) : o \in BoundedSeq(Requirements, MaxChecks)},
        f \in FragmentLists}

NoCall == [op |-> "none"]

\* the subsequences of s: the entries at the positions in I, in order
RECURSIVE keep(_, _, _)
keep(s, I, i) ==
    IF i > Len(s) THEN <<>>
    ELSE (IF i \in I THEN <<s[i]>> ELSE <<>>) \o keep(s, I, i + 1)

SubSeqs(s) == {keep(s, I, 1) : I \in SUBSET (1..Len(s))}

\* the kernel config and the requirements of the tests of Kcheck
EXPECTED_KERNEL_CONFIG ==
    <<"CONFIG_FOO=y", "CONFIG_BAR=m", "# CONFIG_BAZ is not set", "CONFIG_USB_ACM=y">>

TEST_KCHECK_CONFIG ==
    <<KconfigOption("CONFIG_FOO", On), KconfigOption("CONFIG_BAR", Module),
      KconfigOption("CONFIG_BAZ", Off), KconfigOption("CONFIG_USB_ACM", Enabled)>>

\* no file exists and uname fails
NoEnv == [files |-> [p \in {} |-> TextFile("")], release |-> None]

\* symbols and paths given to a KernelConfigBuilder
BuilderSymbols == {"CONFIG_FOO", "CONFIG_FOO_BAR"}

UserKernelPaths == {"my.config", "old/my.config.gz", "missing.config"}

\* the environments a KernelConfigBuilder runs in: user files and
\* /proc/config.gz; a user file and /boot/config-<release>; /boot/config and
\* a failing uname; no file at all
KernelEnvs ==
    {[files |-> ("my.config" :> TextFile("CONFIG_FOO=y\nCONFIG_FOO_BAR=n\n"))
                 @@ ("old/my.config.gz" :>
                        GzipFile("# CONFIG_FOO is not set\r\nCONFIG_FOO_BAR=m"))
                 @@ (PROC_CONFIG_GZ :> GzipFile("CONFIG_FOO=m")),
      release |-> Some("6.1.0")],
     [files |-> ("my.config" :> TextFile("CONFIG_FOO=n"))
                 @@ ("/boot/config-6.1.0" :> TextFile("CONFIG_FOO=y\n")),
      release |-> Some("6.1.0")],
     [files |-> (BOOT_CONFIG :> TextFile("CONFIG_FOO_BAR=y\n\nCONFIG_FOO=m\n")),
      release |-> None],
     [files |-> [p \in {} |-> TextFile("")], release |-> Some("6.1.0")]}

\* what a KcheckConfigBuilder is given
ConfigNames == {"GLOBAL"}

ConfigKernels == {<<>>, <<KconfigOption("CONFIG_BAZ", Off)>>}

ConfigFragments == {<<KcheckConfigFragment(<<KconfigOption("CONFIG_FOO", On)>>)>>}

UserConfigPaths ==
    {"a.toml", "b.json", "bad.toml", "c.yaml", "./kcheck", "missing.toml"}

\* the user files that exist: a document without a name, a document with a
\* name and a fragment, a file that is not TOML, a file of an unknown type
\* and a file without extension
UserConfigFiles ==
    ("a.toml" :> TomlFile(KcheckConfig(None,
                    Some(<<KconfigOption("CONFIG_BAR", Module)>>), None)))
    @@ ("b.json" :> JsonFile(KcheckConfig(Some("B"), None,
                    Some(<<KcheckConfigFragment(
                              <<KconfigOption("CONFIG_FOO", Disabled)>>)>>))))
    @@ ("bad.toml" :> TextFile("CONFIG_FOO=y"))
    @@ ("c.yaml" :> TextFile("name: C"))
    @@ ("./kcheck" :> TextFile("name = \"K\""))

\* the environments a KcheckConfigBuilder runs in: the user files alone, with
\* both system documents, and with /etc/kcheck.json alone
ConfigEnvs ==
    {[files |-> UserConfigFiles, release |-> None],
     [files |-> UserConfigFiles
                 @@ (ETC_KCHECK_TOML :> TomlFile(KcheckConfig(Some("SYSTEM"),
                        Some(<<KconfigOption("CONFIG_FOO", On)>>), None)))
                 @@ (ETC_KCHECK_JSON :> JsonFile(KcheckConfig(Some("ETC"), None,
                        Some(<<KcheckConfigFragment(
                                  <<KconfigOption("CONFIG_BAR", Enabled)>>)>>)))),
      release |-> None],
     [files |-> UserConfigFiles
                 @@ (ETC_KCHECK_JSON :> JsonFile(KcheckConfig(None,
                        Some(<<KconfigOption("CONFIG_FOO", Enabled)>>), None))),
      release |-> None]}

\* the paths a requirement document is loaded from: the two formats, an
\* unknown extension, the extension in capitals, no extension, an empty
\* extension, a file name that starts with its only ".", two extensions, and
\* the same below a directory whose name has a "."
LoadPaths ==
    {"kcheck.toml", "kcheck.json", "kcheck.yaml", "kcheck.TOML", "kcheck",
     "kcheck.", ".toml", "kcheck.toml.bak", "kcheck.bak.json",
     "conf.d/kcheck", "conf.d/kcheck.toml", "conf.d/.json"}

\* what the file holds: a document in TOML, a document in JSON, text that is
\* neither, or bytes that are not text
LoadContents ==
    {TomlFile(KcheckConfig(Some("T"), Some(<<KconfigOption("CONFIG_FOO", On)>>), None)),
     JsonFile(KcheckConfig(None, None, None)),
     TextFile("CONFIG_FOO"),
     GzipFile("CONFIG_FOO=y")}

\* the environments try_from_file runs in: no file, or one file
LoadEnvs ==
    {NoEnv} \cup {[files |-> (p :> c), release |-> None] :
                    p \in LoadPaths, c \in LoadContents}

\* the requirement files given to a KcheckBuilder
KcheckConfigPaths == {"a.toml", "missing.toml"}

\* the environments a KcheckBuilder runs in: the kernel files of a
\* KernelConfigBuilder together with the user requirement files, without and
\* with the system documents
KcheckEnvs ==
    {[files |-> k.files @@ c.files, release |-> k.release] :
        k \in KernelEnvs,
        c \in {d \in ConfigEnvs : ETC_KCHECK_JSON \in DOMAIN d.files
                                    => ETC_KCHECK_TOML \in DOMAIN d.files}}

\* no kernel config was built yet
NotBuilt == [tag |-> "NotBuilt", val |-> <<>>, kind |-> "", payload |-> ""]

\* a call made on the KernelConfigBuilder
BuilderCall(m, symbol, state, path) ==
    [m |-> m, symbol |-> symbol, state |-> state, path |-> path]

(***************************************************************************)
(* Calls.  None of them changes the kernel config or the requirements, so  *)
(* a behaviour is one call on the values Init built: what any later call   *)
(* returns is what it returns as the first one.                            *)
(***************************************************************************)
\* desired.check(observed)
CheckCall(desired, observed) ==
    /\ ret = NoCall
    /\ ret' = [op |-> "check", desired |-> desired, observed |-> observed,
               result |-> check(desired, observed)]
    /\ UNCHANGED <<lines, config>>
    /\ UNCHANGED builders

\* kernel.option(symbol)
OptionCall(symbol) ==
    /\ ret = NoCall
    /\ kres.tag = "Ok"
    /\ ret' = [op |-> "option", symbol |-> symbol, result |-> option(lines, symbol)]
    /\ UNCHANGED <<lines, config>>
    /\ UNCHANGED builders

\* kernel.check_option(symbol, desired)
CheckOptionCall(symbol, desired) ==
    /\ ret = NoCall
    /\ kres.tag = "Ok"
    /\ ret' = [op |-> "check_option", symbol |-> symbol, desired |-> desired,
               result |-> check_option(lines, symbol, desired)]
    /\ UNCHANGED <<lines, config>>
    /\ UNCHANGED builders

\* kcheck.perform_check()
PerformCheckCall ==
    /\ ret = NoCall
    /\ kres.tag = "Ok"
    /\ ret' = [op |-> "perform_check", result |-> perform_check(config, lines)]
    /\ UNCHANGED <<lines, config>>
    /\ UNCHANGED builders

\* KcheckConfig::try_from_file(path)
TryFromFileCall(path) ==
    /\ ret = NoCall
    /\ ret' = [op |-> "try_from_file", path |-> path,
               result |-> try_from_file(env.files, path)]
    /\ UNCHANGED <<lines, config>>
    /\ UNCHANGED builders

\* builder.option(symbol, state)
KbOption(symbol, state) ==
    /\ kres = NotBuilt
    /\ Len(calls) < MaxCalls
    /\ kb' = KernelConfigBuilder_option(kb, symbol, state)
    /\ calls' = Append(calls, BuilderCall("option", symbol, state, ""))
    /\ UNCHANGED <<lines, config, ret, env, kres, cb, kcb>>

\* builder.user(path)
KbUser(path) ==
    /\ kres = NotBuilt
    /\ Len(calls) < MaxCalls
    /\ kb' = KernelConfigBuilder_user(kb, path)
    /\ calls' = Append(calls, BuilderCall("user", "", NotFound, path))
    /\ UNCHANGED <<lines, config, ret, env, kres, cb, kcb>>

\* builder.system()
KbSystem ==
    /\ kres = NotBuilt
    /\ Len(calls) < MaxCalls
    /\ kb' = KernelConfigBuilder_system(kb)
    /\ calls' = Append(calls, BuilderCall("system", "", NotFound, ""))
    /\ UNCHANGED <<lines, config, ret, env, kres, cb, kcb>>

\* builder.build(): the KernelConfig exists if and only if it returns Ok
KbBuild ==
    /\ kres = NotBuilt
    /\ kres' = KernelConfigBuilder_build(kb, env)
    /\ lines' = IF kres'.tag = "Ok" THEN kres'.val ELSE lines
    /\ UNCHANGED <<config, ret, env, kb, calls, cb, kcb>>

\* the setters of the KcheckConfigBuilder
CbName(name) ==
    /\ ret = NoCall
    /\ cb' = KcheckConfigBuilder_name(cb, name)
    /\ UNCHANGED <<lines, config, ret, env, kb, calls, kres, kcb>>

CbKernel(kernel) ==
    /\ ret = NoCall
    /\ cb' = KcheckConfigBuilder_kernel(cb, kernel)
    /\ UNCHANGED <<lines, config, ret, env, kb, calls, kres, kcb>>

CbFragment(fragment) ==
    /\ ret = NoCall
    /\ cb' = KcheckConfigBuilder_fragment(cb, fragment)
    /\ UNCHANGED <<lines, config, ret, env, kb, calls, kres, kcb>>

CbSystem ==
    /\ ret = NoCall
    /\ cb' = KcheckConfigBuilder_system(cb)
    /\ UNCHANGED <<lines, config, ret, env, kb, calls, kres, kcb>>

CbConfigFiles(files) ==
    /\ ret = NoCall
    /\ Len(cb.user_cfg_files) + Len(files) <= MaxFiles
    /\ cb' = KcheckConfigBuilder_config_files(cb, files)
    /\ UNCHANGED <<lines, config, ret, env, kb, calls, kres, kcb>>

\* builder.build(): the KcheckConfig exists if and only if it returns Ok
CbBuild ==
    /\ ret = NoCall
    /\ ret' = [op |-> "config_build",
               result |-> KcheckConfigBuilder_build(cb, env.files)]
    /\ config' = IF ret'.result.tag = "Ok" THEN ret'.result.val ELSE config
    /\ UNCHANGED <<lines, env, kb, calls, kres, cb, kcb>>

\* the setters of the KcheckBuilder
KcbSystemKernel ==
    /\ ret = NoCall
    /\ kcb' = KcheckBuilder_system_kernel(kcb)
    /\ UNCHANGED <<lines, config, ret, env, kb, calls, kres, cb>>

KcbKernelFragments(files) ==
    /\ ret = NoCall
    /\ Len(kcb.user_kernel_files) + Len(files) <= MaxFiles
    /\ kcb' = KcheckBuilder_kernel_fragments(kcb, files)
    /\ UNCHANGED <<lines, config, ret, env, kb, calls, kres, cb>>

KcbSystemConfig ==
    /\ ret = NoCall
    /\ kcb' = KcheckBuilder_system_config(kcb)
    /\ UNCHANGED <<lines, config, ret, env, kb, calls, kres, cb>>

KcbConfigFragments(files) ==
    /\ ret = NoCall
    /\ Len(kcb.user_config_files) + Len(files) <= MaxFiles
    /\ kcb' = KcheckBuilder_config_fragments(kcb, files)
    /\ UNCHANGED <<lines, config, ret, env, kb, calls, kres, cb>>

\* builder.build(): the two builders it makes, what building the kernel
\* config returned, and the Kcheck, which exists if and only if it returns Ok
KcbBuild ==
    /\ ret = NoCall
    /\ kb' = user_kernel_config_builder(kcb, Len(kcb.user_kernel_files))
    /\ kres' = KernelConfigBuilder_build(kb', env)
    /\ cb' = IF kres'.tag = "Ok" THEN kcheck_config_builder(kcb) ELSE cb
    /\ ret' = [op |-> "kcheck_build", result |-> KcheckBuilder_build(kcb, env)]
    /\ lines' = IF ret'.result.tag = "Ok" THEN ret'.result.val.kernel ELSE lines
    /\ config' = IF ret'.result.tag = "Ok" THEN ret'.result.val.config ELSE config
    /\ UNCHANGED <<env, calls, kcb>>

(***************************************************************************)
(* Specifications.                                                         *)
(***************************************************************************)
\* the kernel config was made from its lines, without a builder
NoBuilders ==
    /\ env = NoEnv
    /\ kb = DefaultKernelConfigBuilder
    /\ calls = <<>>
    /\ kres = Ok(lines)
    /\ cb = DefaultKcheckConfigBuilder
    /\ kcb = DefaultKcheckBuilder

\* the state lattice alone
InitLattice ==
    /\ lines = <<>>
    /\ config = DefaultConfig
    /\ ret = NoCall
    /\ NoBuilders

NextLattice == \E desired \in KconfigState, observed \in KconfigState :
                    CheckCall(desired, observed)

SpecLattice == InitLattice /\ [][NextLattice]_vars

\* lookups in a kernel config
InitKernel ==
    /\ lines \in BoundedSeq(KernelLines, MaxLines)
    /\ config = DefaultConfig
    /\ ret = NoCall
    /\ NoBuilders

NextKernel ==
    \/ \E symbol \in Symbols : OptionCall(symbol)
    \/ \E symbol \in Symbols, desired \in KconfigState :
            CheckOptionCall(symbol, desired)

SpecKernel == InitKernel /\ [][NextKernel]_vars

\* a Kcheck made of a requirement document and a kernel config
Init ==
    /\ lines \in BoundedSeq(CfgLines, MaxCfgLines)
    /\ config \in KcheckConfigs
    /\ ret = NoCall
    /\ NoBuilders

Next ==
    \/ PerformCheckCall
    \/ \E symbol \in CfgSymbols, desired \in KconfigState :
            CheckOptionCall(symbol, desired)

Spec == Init /\ [][Next]_vars

\* a kernel config made by a KernelConfigBuilder, then looked up
InitBuilder ==
    /\ lines = <<>>
    /\ config = DefaultConfig
    /\ ret = NoCall
    /\ env \in KernelEnvs
    /\ kb = DefaultKernelConfigBuilder
    /\ calls = <<>>
    /\ kres = NotBuilt
    /\ cb = DefaultKcheckConfigBuilder
    /\ kcb = DefaultKcheckBuilder

NextBuilder ==
    \/ \E symbol \in BuilderSymbols, state \in KconfigState : KbOption(symbol, state)
    \/ \E path \in UserKernelPaths : KbUser(path)
    \/ KbSystem
    \/ KbBuild
    \/ \E symbol \in BuilderSymbols : OptionCall(symbol)

SpecBuilder == InitBuilder /\ [][NextBuilder]_vars

\* a requirement document made by a KcheckConfigBuilder
InitConfig ==
    /\ lines = <<>>
    /\ config = DefaultConfig
    /\ ret = NoCall
    /\ env \in ConfigEnvs
    /\ kb = DefaultKernelConfigBuilder
    /\ calls = <<>>
    /\ kres = NotBuilt
    /\ cb = DefaultKcheckConfigBuilder
    /\ kcb = DefaultKcheckBuilder

NextConfig ==
    \/ \E name \in ConfigNames : CbName(name)
    \/ \E kernel \in ConfigKernels : CbKernel(kernel)
    \/ \E fragment \in ConfigFragments : CbFragment(fragment)
    \/ CbSystem
    \/ \E files \in BoundedSeq(UserConfigPaths, MaxFiles) \ {<<>>} :
            CbConfigFiles(files)
    \/ CbBuild

SpecConfig == InitConfig /\ [][NextConfig]_vars

\* a requirement document loaded from a file
InitLoad ==
    /\ lines = <<>>
    /\ config = DefaultConfig
    /\ ret = NoCall
    /\ env \in LoadEnvs
    /\ kb = DefaultKernelConfigBuilder
    /\ calls = <<>>
    /\ kres = NotBuilt
    /\ cb = DefaultKcheckConfigBuilder
    /\ kcb = DefaultKcheckBuilder

NextLoad == \E path \in LoadPaths : TryFromFileCall(path)

SpecLoad == InitLoad /\ [][NextLoad]_vars

\* a Kcheck made by a KcheckBuilder
InitKcheck ==
    /\ lines = <<>>
    /\ config = DefaultConfig
    /\ ret = NoCall
    /\ env \in KcheckEnvs
    /\ kb = DefaultKernelConfigBuilder
    /\ calls = <<>>
    /\ kres = NotBuilt
    /\ cb = DefaultKcheckConfigBuilder
    /\ kcb = DefaultKcheckBuilder

NextKcheck ==
    \/ KcbSystemKernel
    \/ \E files \in BoundedSeq(UserKernelPaths, MaxFiles) \ {<<>>} :
            KcbKernelFragments(files)
    \/ KcbSystemConfig
    \/ \E files \in BoundedSeq(KcheckConfigPaths, MaxFiles) \ {<<>>} :
            KcbConfigFragments(files)
    \/ KcbBuild

SpecKcheck == InitKcheck /\ [][NextKcheck]_vars

\* a Kcheck made of part of the kernel config and part of the requirements
\* of the tests
InitEndToEnd ==
    /\ lines \in SubSeqs(EXPECTED_KERNEL_CONFIG)
    /\ config \in {KcheckConfig(None, Some(kernel), None) :
                        kernel \in SubSeqs(TEST_KCHECK_CONFIG)}
    /\ ret = NoCall
    /\ NoBuilders

NextEndToEnd == PerformCheckCall

SpecEndToEnd == InitEndToEnd /\ [][NextEndToEnd]_vars

(***************************************************************************)
(* Properties.                                                             *)
(***************************************************************************)
\* the check list of the requirements
CheckList == into_iter(config)

\* what the lookup of entry i of the check list returns
Lookup(i) == option(lines, CheckList[i][1])

\* the entries of the check list whose lookup does not return Ok
NotOk == {i \in 1..Len(CheckList) : Lookup(i).tag # "Ok"}

\* the first of them
FirstNotOk == CHOOSE i \in NotOk : \A j \in NotOk : i <= j

\* the lines that are candidates for a symbol: they contain it and do not
\* contain it followed by "_"
Candidates(symbol) ==
    {i \in 1..Len(lines) :
        contains(lines[i], symbol) /\ ~contains(lines[i], symbol \o "_")}

\* C1: Disabled.check(x) is true if and only if x is NotFound, NotSet or Off;
\* it is false for On, Module, Enabled, Disabled and every Text.
C1_DisabledCheck ==
    (ret.op = "check" /\ ret.desired = Disabled)
        => (ret.result <=> ret.observed \in {NotFound, NotSet, Off})

C1_Witness ==
    /\ ret.op = "check"
    /\ ret.desired = Disabled
    /\ ret.observed = NotSet
    /\ ret.result = TRUE

\* C2: Enabled.check(x) is true if and only if x is On or Module; it is false
\* for NotFound, NotSet, Off, Disabled, Enabled and every Text.
C2_EnabledCheck ==
    (ret.op = "check" /\ ret.desired = Enabled)
        => (ret.result <=> ret.observed \in {On, Module})

C2_Witness ==
    /\ ret.op = "check"
    /\ ret.desired = Enabled
    /\ ret.observed = Module
    /\ ret.result = TRUE

C4_OneRecordPerEntry ==
    (ret.op = "perform_check" /\ NotOk = {})
        => /\ ret.result.tag = "Ok"
           /\ Len(ret.result.val) = Len(CheckList)
           /\ \A i \in 1..Len(CheckList) :
                /\ ret.result.val[i].name = CheckList[i][1]
                /\ ret.result.val[i].desired_state = CheckList[i][2]
                /\ ret.result.val[i].kernel_state = Lookup(i).val
                /\ ret.result.val[i].result \in {"Pass", "Fail"}
                /\ ret.result.val[i].result = "Pass"
                     <=> check(CheckList[i][2], Lookup(i).val)

C4_Witness ==
    /\ ret.op = "perform_check"
    /\ NotOk = {}
    /\ Len(CheckList) >= 2
    /\ \E i, j \in 1..Len(ret.result.val) :
            /\ ret.result.val[i].result = "Pass"
            /\ ret.result.val[j].result = "Fail"
            /\ ret.result.val[i].name # ret.result.val[j].name

\* C5: if the lookup of some entry of the check list returns an error,
\* perform_check returns an error and no records: the error of the first entry
\* whose lookup returns one.
C5_FirstErrorReturned ==
    (ret.op = "perform_check" /\ \E i \in NotOk : Lookup(i).tag = "Err")
        => LET errs == {i \in NotOk : Lookup(i).tag = "Err"}
               first == CHOOSE i \in errs : \A j \in errs : i <= j
           IN  ret.result = Lookup(first)

\* C6 as stated: the error perform_check returns names the symbol whose lookup
\* failed.
C6_ErrorNamesSymbol ==
    (ret.op = "perform_check" /\ ret.result.tag = "Err")
        => ret.result.payload = CheckList[FirstNotOk][1]

\* C6, amended: the error perform_check returns is the one the lookup of the
\* first failing symbol returned, unchanged; it names the symbol when it is
\* DuplicateConfig, it carries the value token that follows "=" on the line
\* when it is UnknownKernelConfigOption, and nothing when it is
\* KernelConfigParseError.
C6_ErrorAsLookedUp ==
    (ret.op = "perform_check" /\ ret.result.tag = "Err")
        => LET symbol == CheckList[FirstNotOk][1]
           IN  /\ ret.result = Lookup(FirstNotOk)
               /\ ret.result.kind \in {"DuplicateConfig", "KernelConfigParseError",
                                       "UnknownKernelConfigOption"}
               /\ ret.result.kind = "DuplicateConfig"
                    => ret.result.payload = symbol
               /\ ret.result.kind = "UnknownKernelConfigOption"
                    => \E i \in Candidates(symbol) :
                          contains(lines[i], symbol \o "=" \o ret.result.payload)
               /\ ret.result.kind = "KernelConfigParseError"
                    => ret.result.payload = ""

C6_Witness ==
    /\ ret.op = "perform_check"
    /\ ret.result = UnknownKernelConfigOption("q")
    /\ CheckList[FirstNotOk][1] = "CONFIG_FOO"
    /\ FirstNotOk > 1

\* C7: check_option(symbol, desired) returns true exactly when option(symbol)
\* returns Ok(x) and desired.check(x) holds.
C7_CheckOptionByLattice ==
    ret.op = "check_option"
        => LET r == option(lines, ret.symbol)
           IN  (ret.result = Ok(TRUE))
                  <=> (r.tag = "Ok" /\ check(ret.desired, r.val))

\* C8: whenever option(symbol) returns an error, check_option(symbol, desired)
\* returns false for every desired state, and perform_check whose first
\* failing entry is that symbol returns the error.
C8_ErrorSwallowedOrSurfaced ==
    /\ (ret.op = "check_option" /\ option(lines, ret.symbol).tag = "Err")
            => ret.result = Ok(FALSE)
    /\ (ret.op = "perform_check" /\ NotOk # {} /\ Lookup(FirstNotOk).tag = "Err")
            => /\ ret.result = Lookup(FirstNotOk)
               /\ \A desired \in KconfigState :
                    check_option(lines, CheckList[FirstNotOk][1], desired)
                        = Ok(FALSE)

C8_Witness ==
    /\ ret.op = "check_option"
    /\ ret.desired = NotFound
    /\ option(lines, ret.symbol).tag = "Err"
    /\ ret.result = Ok(FALSE)
    /\ perform_check(config, lines) = option(lines, ret.symbol)

\* C9: if two or more lines are candidates for a symbol, option(symbol)
\* returns DuplicateConfig(symbol), whatever the lines hold.
C9_DuplicateWins ==
    (ret.op = "option" /\ Cardinality(Candidates(ret.symbol)) >= 2)
        => ret.result = DuplicateConfig(ret.symbol)

\* C10: if no line is a candidate for a symbol (none contains it, or each one
\* that does also contains the symbol followed by "_"), option(symbol) returns
\* Ok(NotFound).
C10_NoCandidateNotFound ==
    (ret.op = "option" /\ Candidates(ret.symbol) = {})
        => ret.result = Ok(NotFound)

C10_Witness ==
    /\ ret.op = "option"
    /\ Candidates(ret.symbol) = {}
    /\ \E i \in 1..Len(lines) : contains(lines[i], ret.symbol)
    /\ \E i \in 1..Len(lines) : ~contains(lines[i], ret.symbol)
    /\ ret.result = Ok(NotFound)

\* the states a line of a kernel config can stand for
Concrete == {On, Module, Off, NotSet}

\* C11: a line that contains the symbol followed by "_" is never a candidate
\* for the symbol: in a config of one line written for a symbol S and one
\* written for a longer symbol S_T, in either order, option(S) returns the
\* state of the S line, not DuplicateConfig, and option(S_T) returns the state
\* of the S_T line.
C11_LongerSymbolExcluded ==
    (ret.op = "option" /\ Len(calls) = 2)
        => \A i, j \in 1..2 :
              (/\ calls[i].m = "option" /\ calls[i].state \in Concrete
               /\ calls[j].m = "option" /\ calls[j].state \in Concrete
               /\ starts_with(calls[j].symbol, calls[i].symbol \o "_"))
                  => /\ \A n \in 1..Len(lines) :
                          contains(lines[n], ret.symbol \o "_")
                              => n \notin Candidates(ret.symbol)
                     /\ ret.symbol = calls[i].symbol
                          => ret.result = Ok(calls[i].state)
                     /\ ret.symbol = calls[j].symbol
                          => ret.result = Ok(calls[j].state)

C11_Witness ==
    /\ ret.op = "option"
    /\ calls = <<BuilderCall("option", "CONFIG_FOO", On, ""),
                 BuilderCall("option", "CONFIG_FOO_BAR", Off, "")>>
    /\ lines = <<"CONFIG_FOO=y", "CONFIG_FOO_BAR=n">>
    /\ ret.symbol = "CONFIG_FOO"
    /\ ret.result = Ok(On)

\* C12: an option(symbol) that succeeds returns NotFound, NotSet, Off, On or
\* Module; it never returns Disabled or Enabled.
C12_ObservedIsConcrete ==
    (ret.op = "option" /\ ret.result.tag = "Ok")
        => /\ ret.result.val \in {NotFound, NotSet, Off, On, Module}
           /\ ret.result.val \notin {Disabled, Enabled}

C12_Witness ==
    /\ ret.op = "option"
    /\ ret.symbol = "CONFIG_FOO"
    /\ lines = <<"CONFIG_BAR=m", "CONFIG_FOO=y">>
    /\ ret.result = Ok(On)

\* the builder was given the single call option(symbol, state) and the kernel
\* config it built was asked for that symbol
RoundTrip ==
    /\ ret.op = "option"
    /\ Len(calls) = 1
    /\ calls[1].m = "option"
    /\ ret.symbol = calls[1].symbol

Called(m) == \E i \in 1..Len(calls) : calls[i].m = m

\* C14: whatever calls were made on the builder and in whatever order, build
\* returns KernelConfigBuildError and makes no KernelConfig if a manual option
\* was added together with user(path) or system(), if both user(path) and
\* system() were called, or if no call was made at all.
C14_SourcesExclusive ==
    (/\ kres # NotBuilt
     /\ \/ Called("option") /\ (Called("user") \/ Called("system"))
        \/ Called("user") /\ Called("system")
        \/ calls = <<>>)
        => /\ kres.tag = "Err"
           /\ kres.kind = "KernelConfigBuildError"
           /\ lines = <<>>

C14_Witness ==
    /\ kres.kind = "KernelConfigBuildError"
    /\ Len(calls) = 2
    /\ calls[1].m = "user"
    /\ calls[1].path \in DOMAIN env.files
    /\ calls[2].m = "option"
    /\ lines = <<>>

\* the entries of an optional list
Entries(o) == IF o.some THEN o.v ELSE <<>>

\* the number of options in the first n fragments
RECURSIVE OptionsUpTo(_, _)
OptionsUpTo(fragments, n) ==
    IF n = 0 THEN 0 ELSE OptionsUpTo(fragments, n - 1) + Len(fragments[n].kernel)

\* C15: the check list is the top-level options in stored order, then the
\* options of each fragment in fragment order, each in stored order; its
\* length is the sum of the lengths of those lists, so a symbol that occurs
\* several times is kept every time, and perform_check, when it succeeds,
\* returns one record per occurrence.
C15_CheckListFlattened ==
    ret.op = "perform_check"
        => LET kernel == Entries(config.kernel)
               fragments == Entries(config.fragment)
           IN  /\ Len(CheckList) = Len(kernel) + OptionsUpTo(fragments, Len(fragments))
               /\ \A i \in 1..Len(kernel) :
                    CheckList[i] = <<kernel[i].name, kernel[i].state>>
               /\ \A n \in 1..Len(fragments) : \A j \in 1..Len(fragments[n].kernel) :
                    CheckList[Len(kernel) + OptionsUpTo(fragments, n - 1) + j]
                        = <<fragments[n].kernel[j].name, fragments[n].kernel[j].state>>
               /\ ret.result.tag = "Ok"
                    => /\ Len(ret.result.val) = Len(CheckList)
                       /\ \A i \in 1..Len(CheckList) :
                            ret.result.val[i].name = CheckList[i][1]

C15_Witness ==
    /\ ret.op = "perform_check"
    /\ ret.result.tag = "Ok"
    /\ Len(ret.result.val) = 5
    /\ Len(Entries(config.kernel)) = 2
    /\ Cardinality({i \in 1..5 : ret.result.val[i].name = "CONFIG_FOO"}) >= 3
    /\ \E i, j \in 1..5 : i # j /\ CheckList[i] = CheckList[j]

\* the paths build reads, in order: the system locations, then the user files
DocumentPaths ==
    (IF cb.use_sys_cfg THEN <<"/etc/kcheck.toml", "/etc/kcheck.json">> ELSE <<>>)
        \o cb.user_cfg_files

\* the documents that are aggregated: those of the paths that exist, then the
\* in-memory document when a name, options or fragments were given
Documents ==
    LET present == SelectSeq(DocumentPaths, LAMBDA p : p \in DOMAIN env.files)
    IN  [i \in 1..Len(present) |-> env.files[present[i]].doc]
            \o (IF cb.name.some \/ cb.kernel.some \/ cb.fragment.some
                THEN <<[name |-> cb.name, kernel |-> cb.kernel,
                        fragment |-> cb.fragment]>>
                ELSE <<>>)

\* the options, and the fragments, of the first n documents, concatenated
RECURSIVE OptionsOf(_, _)
OptionsOf(docs, n) ==
    IF n = 0 THEN <<>> ELSE OptionsOf(docs, n - 1) \o Entries(docs[n].kernel)

RECURSIVE FragmentsOf(_, _)
FragmentsOf(docs, n) ==
    IF n = 0 THEN <<>> ELSE FragmentsOf(docs, n - 1) \o Entries(docs[n].fragment)

\* C16: a build that succeeds aggregates the documents D1..Dn (system
\* locations, then user files in the given order, then the in-memory
\* document): the name of the config is D1's name, also when D1 has none and
\* a later document has one, its options are the documents' options
\* concatenated in document order, and so are its fragments.
C16_Aggregation ==
    (ret.op = "config_build" /\ ret.result.tag = "Ok")
        => /\ Len(Documents) >= 1
           /\ config = ret.result.val
           /\ config.name.some = Documents[1].name.some
           /\ config.name.some => config.name.v = Documents[1].name.v
           /\ Entries(config.kernel) = OptionsOf(Documents, Len(Documents))
           /\ Entries(config.fragment) = FragmentsOf(Documents, Len(Documents))

C16_Witness ==
    /\ ret.op = "config_build"
    /\ ret.result.tag = "Ok"
    /\ cb.use_sys_cfg
    /\ cb.user_cfg_files = <<"b.json", "a.toml">>
    /\ cb.name.some
    /\ Len(Documents) = 4
    /\ ~Documents[1].name.some
    /\ Documents[2].name.some
    /\ ~config.name.some
    /\ Len(Entries(config.kernel)) = 2
    /\ Len(Entries(config.fragment)) = 1

\* the file at an existing path holds a document in the format of the
\* extension of the path
HoldsDocument(p) ==
    /\ extension(p).some
    /\ extension(p).v \in {"toml", "json"}
    /\ env.files[p].kind = extension(p).v

\* a name, options or fragments were given through the builder
Supplied == cb.name.some \/ cb.kernel.some \/ cb.fragment.some

\* no document file was loaded: none of the paths build reads holds a
\* document in the format of its extension
NoFileLoaded ==
    \A i \in 1..Len(DocumentPaths) :
        LET p == DocumentPaths[i]
        IN  ~(p \in DOMAIN env.files /\ HoldsDocument(p))

\* a file ends build: a user file that does not exist, or a file that exists
\* and does not hold a document in the format of its extension
FileFails ==
    \E i \in 1..Len(DocumentPaths) :
        LET p == DocumentPaths[i]
        IN  IF p \in DOMAIN env.files
            THEN ~HoldsDocument(p)
            ELSE \E j \in 1..Len(cb.user_cfg_files) : cb.user_cfg_files[j] = p

\* C17 as stated: build returns NoConfig exactly when no document file was
\* loaded and no name, options or fragments were given through the builder;
\* giving any of the three makes build succeed.
C17_NoConfigExactly ==
    ret.op = "config_build"
        => /\ ret.result = NoConfig <=> (NoFileLoaded /\ ~Supplied)
           /\ Supplied => ret.result.tag = "Ok"

\* C17, amended: when no file ends build, build returns NoConfig exactly when
\* no document file was loaded and no name, options or fragments were given
\* through the builder, and giving any of the three, even an empty options
\* list, makes build succeed; when a file ends build, build returns that
\* error, never NoConfig, whatever was given.
C17_NoConfigUnlessFileFails ==
    ret.op = "config_build"
        => /\ ~FileFails
                => /\ ret.result = NoConfig <=> (NoFileLoaded /\ ~Supplied)
                   /\ Supplied => ret.result.tag = "Ok"
           /\ FileFails
                => /\ ret.result.tag = "Err"
                   /\ ret.result # NoConfig

C17_Witness ==
    /\ ret.op = "config_build"
    /\ ret.result.tag = "Ok"
    /\ cb.kernel = Some(<<>>)
    /\ ~cb.name.some
    /\ ~cb.fragment.some
    /\ NoFileLoaded
    /\ cb.use_sys_cfg

\* the user files that do not exist
Missing == {i \in 1..Len(cb.user_cfg_files) : cb.user_cfg_files[i] \notin DOMAIN env.files}

\* C18: if a user file does not exist, build returns FileDoesNotExist with the
\* path of the first such file in the order given and makes no config, also
\* when other user files, the system files or the in-memory options are valid.
C18_MissingUserFile ==
    (ret.op = "config_build" /\ Missing # {})
        => LET first == CHOOSE i \in Missing : \A j \in Missing : i <= j
           IN  /\ ret.result = FileDoesNotExist(cb.user_cfg_files[first])
               /\ config = DefaultConfig

C18_Witness ==
    /\ ret.op = "config_build"
    /\ cb.user_cfg_files = <<"a.toml", "missing.toml">>
    /\ cb.use_sys_cfg
    /\ "/etc/kcheck.toml" \in DOMAIN env.files
    /\ cb.kernel.some
    /\ ret.result = FileDoesNotExist("missing.toml")

\* C19: checking the kernel lines CONFIG_FOO=y, CONFIG_BAR=m,
\* "# CONFIG_BAZ is not set", CONFIG_USB_ACM=y against the requirements
\* CONFIG_FOO=On, CONFIG_BAR=Module, CONFIG_BAZ=Off, CONFIG_USB_ACM=Enabled
\* returns four records, all of them Pass.
C19_EndToEndAllPass ==
    (/\ ret.op = "perform_check"
     /\ lines = EXPECTED_KERNEL_CONFIG
     /\ config.kernel = Some(TEST_KCHECK_CONFIG))
        => /\ ret.result.tag = "Ok"
           /\ Len(ret.result.val) = 4
           /\ \A i \in 1..4 : ret.result.val[i].result = "Pass"

\* the value token of a line: what follows the first "=" after the symbol, up
\* to the next "=" or the end of the line
ValueToken(line, symbol) ==
    LET suffix == str_from(line, find(line, symbol) + Len(symbol))
        rest == str_from(suffix, find(suffix, "=") + 1)
    IN  IF find(rest, "=") = 0 THEN rest ELSE SubSeq(rest, 1, find(rest, "=") - 1)

RECURSIVE trim(_)
trim(s) ==
    IF s = "" THEN ""
    ELSE IF SubSeq(s, 1, 1) = " " THEN trim(str_from(s, 2))
    ELSE IF SubSeq(s, Len(s), Len(s)) = " " THEN trim(SubSeq(s, 1, Len(s) - 1))
    ELSE s

\* the single candidate line of the symbol looked up
TheCandidate == lines[CHOOSE i \in Candidates(ret.symbol) : TRUE]

\* the text of a line before and after the first occurrence of the symbol
Before(line, symbol) == SubSeq(line, 1, find(line, symbol) - 1)

After(line, symbol) == str_from(line, find(line, symbol) + Len(symbol))

\* a not-set comment: the text before the symbol, trimmed, begins with "#" and
\* the text after it contains "is not set"
IsNotSetComment(line, symbol) ==
    /\ starts_with(trim(Before(line, symbol)), "#")
    /\ contains(After(line, symbol), "is not set")

\* a non-comment assignment: the text before the symbol, trimmed, does not
\* begin with "#" and the text after it contains "="
IsAssignment(line, symbol) ==
    /\ ~starts_with(trim(Before(line, symbol)), "#")
    /\ contains(After(line, symbol), "=")

\* C21: a single candidate line whose text before the symbol, trimmed, begins
\* with "#" and whose text after the symbol contains "is not set" makes
\* option(symbol) return NotSet, also when the line is indented.
C21_NotSetAfterTrimming ==
    (/\ ret.op = "option"
     /\ Cardinality(Candidates(ret.symbol)) = 1
     /\ IsNotSetComment(TheCandidate, ret.symbol))
        => ret.result = Ok(NotSet)

\* C22: a single candidate line that is neither a not-set comment nor a
\* non-comment assignment makes option(symbol) return KernelConfigParseError,
\* and option never aborts.
C22_MalformedIsParseError ==
    /\ ret.op = "option" => ret.result # Panic
    /\ (/\ ret.op = "option"
        /\ Cardinality(Candidates(ret.symbol)) = 1
        /\ ~IsNotSetComment(TheCandidate, ret.symbol)
        /\ ~IsAssignment(TheCandidate, ret.symbol))
            => ret.result = KernelConfigParseError

\* the permutations of 1..n
Orders(n) == {f \in [1..n -> 1..n] : \A i, j \in 1..n : f[i] = f[j] => i = j}

\* ls without its entry i, and ls with l put in as entry i
Remove(ls, i) == SubSeq(ls, 1, i - 1) \o SubSeq(ls, i + 1, Len(ls))

Insert(ls, i, l) == SubSeq(ls, 1, i - 1) \o <<l>> \o SubSeq(ls, i, Len(ls))

\* C27: what option(symbol) returns depends only on the candidate lines as a
\* multiset: it is the same after any permutation of the lines, after
\* removing any line that is not a candidate, after inserting such a line
\* anywhere, and when it is called again on the same config.
C27_CandidateMultisetOnly ==
    ret.op = "option"
        => /\ \A f \in Orders(Len(lines)) :
                option([i \in 1..Len(lines) |-> lines[f[i]]], ret.symbol) = ret.result
           /\ \A i \in 1..Len(lines) :
                i \notin Candidates(ret.symbol)
                    => option(Remove(lines, i), ret.symbol) = ret.result
           /\ \A i \in 1..(Len(lines) + 1) :
                \A l \in {"", "CONFIG_BAR=m", "CONFIG_FOO_BAR=n"} :
                    (~contains(l, ret.symbol) \/ contains(l, ret.symbol \o "_"))
                        => option(Insert(lines, i, l), ret.symbol) = ret.result
           /\ option(lines, ret.symbol) = ret.result

C27_Witness ==
    /\ ret.op = "option"
    /\ ret.symbol = "CONFIG_FOO"
    /\ lines = <<"CONFIG_FOO_BAR=n", "CONFIG_FOO=m">>
    /\ ret.result = Ok(Module)
    /\ option(<<"CONFIG_FOO=m", "CONFIG_FOO_BAR=n">>, "CONFIG_FOO") = Ok(Module)
    /\ option(<<"CONFIG_FOO=m">>, "CONFIG_FOO") = Ok(Module)

\* a line written for the symbol itself: an assignment or the not-set marker
IsOwnLine(line, symbol) ==
    starts_with(line, symbol \o "=") \/ line = "# " \o symbol \o " is not set"

\* C28: the guard excludes only the lines where the symbol goes on with "_":
\* the line CONFIG_FOOBAR=y is a candidate for CONFIG_FOO, so
\* option(CONFIG_FOO) returns On when it is the only candidate, and
\* DuplicateConfig(CONFIG_FOO) when the other candidate is a line written for
\* CONFIG_FOO.
C28_OtherExtensionIsCandidate ==
    (ret.op = "option" /\ ret.symbol = "CONFIG_FOO")
        => \A i \in 1..Len(lines) :
              lines[i] = "CONFIG_FOOBAR=y"
                  => /\ i \in Candidates(ret.symbol)
                     /\ Candidates(ret.symbol) = {i} => ret.result = Ok(On)
                     /\ \A j \in 1..Len(lines) :
                          (/\ Candidates(ret.symbol) = {i, j}
                           /\ IsOwnLine(lines[j], ret.symbol))
                              => ret.result = DuplicateConfig("CONFIG_FOO")

C28_Witness ==
    /\ ret.op = "option"
    /\ ret.symbol = "CONFIG_FOO"
    /\ lines = <<"CONFIG_FOO=n", "CONFIG_FOOBAR=y">>
    /\ ret.result = DuplicateConfig("CONFIG_FOO")

\* C23: the builder call option(symbol, NotFound) emits no line: the builder
\* holds one line per option call whose state is not NotFound, so a builder
\* that received only NotFound options holds no manual lines.
C23_NotFoundEmitsNoLine ==
    /\ Len(kb.lines) = Cardinality({i \in 1..Len(calls) :
                            calls[i].m = "option" /\ calls[i].state # NotFound})
    /\ (\A i \in 1..Len(calls) : calls[i].m = "option" /\ calls[i].state = NotFound)
            => kb.lines = <<>>

\* C29: for every state d among NotFound, NotSet, Off, Disabled, On, Module
\* and Enabled, the kernel config built with the single call
\* option(symbol, d) satisfies d: option(symbol) succeeds and d.check of the
\* state it returns holds; Disabled is written as symbol=n and looked up as
\* Off, Enabled is written as symbol=y and looked up as On.
C29_BuiltConfigSatisfies ==
    (RoundTrip /\ calls[1].state.v # "Text")
        => /\ ret.result.tag = "Ok"
           /\ check(calls[1].state, ret.result.val)
           /\ calls[1].state = Disabled
                => lines = <<ret.symbol \o "=n">> /\ ret.result = Ok(Off)
           /\ calls[1].state = Enabled
                => lines = <<ret.symbol \o "=y">> /\ ret.result = Ok(On)

C29_Witness ==
    /\ RoundTrip
    /\ calls[1].state = Disabled
    /\ lines = <<"CONFIG_FOO_BAR=n">>
    /\ ret.result = Ok(Off)
    /\ check(Disabled, ret.result.val)

\* the (name, state) pairs of a list of options
Pairs(opts) == [i \in 1..Len(opts) |-> <<opts[i].name, opts[i].state>>]

\* the options of the first n fragments, concatenated
RECURSIVE FragmentOptions(_, _)
FragmentOptions(fragments, n) ==
    IF n = 0 THEN <<>> ELSE FragmentOptions(fragments, n - 1) \o fragments[n].kernel

\* the check lists of the first n documents, one after the other
RECURSIVE OwnCheckLists(_, _)
OwnCheckLists(docs, n) ==
    IF n = 0 THEN <<>> ELSE OwnCheckLists(docs, n - 1) \o into_iter(docs[n])

\* C26: the check list of an aggregated config is the top-level options of
\* every document, in document order, followed by the fragment options of
\* every document, in document order: every top-level option precedes every
\* fragment option, also one of an earlier document.
C26_TopLevelBeforeFragments ==
    (ret.op = "config_build" /\ ret.result.tag = "Ok")
        => LET fragments == FragmentsOf(Documents, Len(Documents))
           IN  into_iter(config)
                 = Pairs(OptionsOf(Documents, Len(Documents)))
                     \o Pairs(FragmentOptions(fragments, Len(fragments)))

\* two documents of one fragment each, then a document of top-level options:
\* the check list is not the documents' own check lists one after the other
C26_Witness ==
    /\ ret.op = "config_build"
    /\ ret.result.tag = "Ok"
    /\ ~cb.use_sys_cfg
    /\ cb.user_cfg_files = <<"b.json", "a.toml">>
    /\ cb.fragment.some
    /\ ~cb.kernel.some
    /\ into_iter(config) = <<<<"CONFIG_BAR", Module>>, <<"CONFIG_FOO", Disabled>>,
                             <<"CONFIG_FOO", On>>>>
    /\ into_iter(config) # OwnCheckLists(Documents, Len(Documents))

\* the error of a file that exists and does not load: contents that are not
\* in the format of the extension, an extension that is neither toml nor
\* json, or no extension
LoadError(p) ==
    IF ~extension(p).some THEN MissingFileExtension
    ELSE IF extension(p).v = "toml" THEN TomlParseError
    ELSE IF extension(p).v = "json" THEN JsonParseError
    ELSE UnknownFileType(extension(p).v)

\* the declared documents that exist and do not load
Broken ==
    {i \in 1..Len(DocumentPaths) :
        /\ DocumentPaths[i] \in DOMAIN env.files
        /\ ~HoldsDocument(DocumentPaths[i])}

\* absent documents are skipped and the first load error ends build
SkipsAbsentAbortsOnError ==
    IF Broken # {}
    THEN LET first == CHOOSE i \in Broken : \A j \in Broken : i <= j
         IN  /\ ret.result = LoadError(DocumentPaths[first])
             /\ config = DefaultConfig
    ELSE /\ ret.result.tag = "Ok" \/ ret.result = NoConfig
         /\ ret.result.tag = "Ok" => ret.result.val = config

\* C24 as stated: a declared document that is absent is skipped and
\* aggregation goes on with the others; any other load error of a document
\* ends build with that error and no config.
C24_AbsentSkipped ==
    ret.op = "config_build" => SkipsAbsentAbortsOnError

\* C24, amended: a system location that is absent is skipped and aggregation
\* goes on with the others, and when every user file exists the first
\* document that does not load (malformed contents, unknown or missing
\* extension) ends build with that error and no config; a user file that is
\* absent is not skipped, it ends build with FileDoesNotExist before any
\* document is loaded.
C24_AbsentSystemSkipped ==
    ret.op = "config_build"
        => /\ Missing = {} => SkipsAbsentAbortsOnError
           /\ Missing # {} => /\ ret.result.kind = "FileDoesNotExist"
                              /\ config = DefaultConfig

\* /etc/kcheck.toml is absent and skipped, /etc/kcheck.json and a user file
\* are aggregated
C24_Witness ==
    /\ ret.op = "config_build"
    /\ cb.use_sys_cfg
    /\ ETC_KCHECK_TOML \notin DOMAIN env.files
    /\ ETC_KCHECK_JSON \in DOMAIN env.files
    /\ cb.user_cfg_files = <<"a.toml">>
    /\ ret.result.tag = "Ok"
    /\ config.kernel = Some(<<KconfigOption("CONFIG_FOO", Enabled),
                              KconfigOption("CONFIG_BAR", Module)>>)

\* the format names the extension of the path as the outcome of a file that
\* exists: the parser's result for toml and json, UnknownFileType for any
\* other extension, MissingFileExtension for none
ByExtension(path, file) ==
    LET ext == extension(path)
    IN  IF ~ext.some THEN ret.result = MissingFileExtension
        ELSE IF ext.v \in {"toml", "json"}
        THEN IF file.kind = ext.v THEN ret.result = Ok(file.doc)
             ELSE ret.result = (IF ext.v = "toml" THEN TomlParseError
                                ELSE JsonParseError)
        ELSE ret.result = UnknownFileType(ext.v)

\* C25 as stated: a file that exists is loaded in the format of its
\* extension, toml and json are parsed, any other extension returns
\* UnknownFileType(extension) and no extension MissingFileExtension; a file
\* that does not exist returns FileDoesNotExist(path) whatever its extension.
C25_FormatByExtension ==
    ret.op = "try_from_file"
        => IF ret.path \in DOMAIN env.files
           THEN ByExtension(ret.path, env.files[ret.path])
           ELSE ret.result = FileDoesNotExist(ret.path)

\* C25, amended: a file that does not exist returns FileDoesNotExist(path)
\* and a file that exists and cannot be read as text returns an I/O error,
\* both whatever the extension, because the file is opened and read before
\* the extension is looked at; a file that was read is loaded in the format
\* of its extension as stated.
C25_ReadThenFormatByExtension ==
    ret.op = "try_from_file"
        => IF ret.path \notin DOMAIN env.files
           THEN ret.result = FileDoesNotExist(ret.path)
           ELSE IF env.files[ret.path].kind = "gzip"
           THEN ret.result.kind = "IoError"
           ELSE ByExtension(ret.path, env.files[ret.path])

\* a path without extension, and one with an unknown extension, that do not
\* exist
C25_Witness ==
    /\ ret.op = "try_from_file"
    /\ ret.path = "conf.d/kcheck"
    /\ "kcheck.toml" \in DOMAIN env.files
    /\ ret.result = FileDoesNotExist("conf.d/kcheck")

\* the lines of the text of the file at a path
LinesOfFile(path) == str_lines(env.files[path].text)

====
